---- MODULE Spec2Model ----
(***************************************************************************)
(* State-machine model of the sales-prompt form: PromptForm (form state,   *)
(* debounced persistence, model-list fetch), PromptContainer (submission   *)
(* workflow, result persistence) and PromptHistory (pagination, restore).  *)
(***************************************************************************)
EXTENDS Integers, Sequences, FiniteSets, TLC

VARIABLES
    store,            \* localStorage: the three keys the components use
    form,             \* react-hook-form values of PromptForm
    errors,           \* fields that currently show a validation message
    isSubmitted,      \* react-hook-form formState.isSubmitted
    mounted,          \* PromptForm `mounted` state
    crashed,          \* an effect threw: React has torn the tree down
    models,           \* PromptForm `models` state (ids only)
    isLoadingModels,  \* PromptForm `isLoadingModels` state
    fetchTimer,       \* <<>> or <<apiKey>>: pending 500 ms timer of the apiKey effect
    fetchInFlight,    \* number of fetchModels calls awaiting openai.models.list()
    saveTimer,        \* <<>> or <<formData>>: pending 300 ms timer of debouncedSave
    toast,            \* title of the last toast shown ("" when none)
    cleanSinceReset,  \* history variable: resetForm ran and no field was edited since
    isLoading,        \* PromptContainer `isLoading` state
    result,           \* PromptContainer `result` state (Null for null)
    currentFormData,  \* PromptContainer `currentFormData` state: <<>> for null
    genInFlight,      \* values of the generateSalesPrompt calls awaiting a response
    logged,           \* console.error was called by handleSubmit's catch
    history,          \* the `history` prop of PromptHistory
    currentPage       \* PromptHistory `currentPage` state

formVars == <<form, errors, isSubmitted, mounted, crashed, models, isLoadingModels,
              fetchTimer, fetchInFlight, saveTimer, toast, cleanSinceReset>>
containerVars == <<isLoading, result, currentFormData, genInFlight, logged>>
historyVars == <<history, currentPage>>
vars == <<store, formVars, containerVars, historyVars>>

---------------------------------------------------------------------------
(* Bounds of the model *)

\* the user edits the first MaxEditField entries of TextFieldOrder
MaxEditField == 2
\* longest model list the API returns
MaxApiModels == 2
\* most fetchModels calls awaiting a response at once
MaxInFlight == 2
\* longest history handed to PromptHistory
MaxHistory == 25
\* most generations a workflow run adds to the history
MaxGenerated == 1

(* Program constants *)

ITEMS_PER_PAGE == 10
MinKeyLength == 30

---------------------------------------------------------------------------
(* Values *)

Null == "<null>"

SavedKeys == <<"model", "aiName", "companyName", "industry", "targetAudience",
               "challenges", "product", "objective", "objections", "additionalInfo">>

RequiredBusinessFields == {"aiName", "companyName", "industry", "targetAudience",
                           "challenges", "product", "objective", "objections"}

FieldNames == {"apiKey"} \cup {SavedKeys[i] : i \in 1..Len(SavedKeys)}

\* order in which the bound MaxEditField opens text fields to editing
TextFieldOrder == <<"aiName", "additionalInfo", "objections", "companyName", "industry",
                    "targetAudience", "challenges", "product", "objective">>

Min(a, b) == IF a < b THEN a ELSE b
Max(a, b) == IF a < b THEN b ELSE a

EditableTextFields == {TextFieldOrder[i] : i \in 1..Min(MaxEditField, Len(TextFieldOrder))}
TextInputs == {"", "b"}

ShortKey == "sk-short"
LongKey == "sk-0123456789abcdefghijklmnopqrstuv"
KeyInputs == {"", ShortKey, LongKey}

DefaultModels == <<"gpt-4o-mini", "gpt-4o">>
ApiIds == {"gpt-4o-mini", "gpt-4o", "gpt-4"}
Prompts == {"p1", "p2"}

\* useForm defaultValues
defaultValues ==
    [f \in FieldNames |-> IF f = "model" THEN "gpt-4o-mini" ELSE ""]

\* a fully filled form, as a previous session may have saved it
FullValues ==
    [f \in FieldNames |-> IF f = "model" THEN "gpt-4o" ELSE IF f = "apiKey" THEN LongKey ELSE "b"]

RECURSIVE SeqsUpTo(_, _)
SeqsUpTo(S, n) ==
    IF n = 0 THEN {<<>>}
    ELSE LET shorter == SeqsUpTo(S, n - 1)
         IN shorter \cup {Append(s, x) : s \in {t \in shorter : Len(t) = n - 1}, x \in S}

---------------------------------------------------------------------------
(* localStorage and JSON *)

SavedKeySet == {SavedKeys[i] : i \in 1..Len(SavedKeys)}

\* the object literal debouncedSave builds from the captured form values
dataToSave(formData) == [k \in SavedKeySet |-> formData[k]]

\* JSON.stringify of that object: its entries, in the order of the literal
JSONstringify(obj) == [i \in 1..Len(SavedKeys) |-> <<SavedKeys[i], obj[SavedKeys[i]]>>]

AbsentItem == [kind |-> "absent", entries |-> <<>>]
MalformedItem == [kind |-> "malformed", entries |-> <<>>]
JsonItem(obj) == [kind |-> "json", entries |-> JSONstringify(obj)]

\* a JavaScript truthy test of a getItem result
Truthy(s) == s # Null /\ s # ""

\* form.setValue(key, value)
setValue(f, key, value) == [f EXCEPT ![key] = value]

\* Object.entries(parsedData).forEach: every entry but apiKey is set on the form
RECURSIVE ApplyEntries(_, _)
ApplyEntries(f, entries) ==
    IF entries = <<>> THEN f
    ELSE LET e == Head(entries)
         IN ApplyEntries(IF e[1] # "apiKey" THEN setValue(f, e[1], e[2]) ELSE f,
                         Tail(entries))

\* JSON.parse throws on a value that is present and not valid JSON
LoadThrows(s) == s.form.kind = "malformed"

\* the values the load effect leaves in a freshly constructed form
LoadedForm(s) ==
    LET restored == IF s.form.kind = "json" THEN ApplyEntries(defaultValues, s.form.entries)
                    ELSE defaultValues
    IN IF Truthy(s.apiKey) THEN setValue(restored, "apiKey", s.apiKey) ELSE restored

\* PromptContainer: the effect that mirrors `result` into localStorage
SyncResult(r) == IF Truthy(r) THEN r ELSE Null

---------------------------------------------------------------------------
(* Validation: formSchema *)

\* variant: objections declared optional as well
formSchemaObjectionsOptional(values) ==
    {f \in FieldNames : f \notin {"additionalInfo", "objections"} /\ Len(values[f]) < 1}

\* the fields whose z.string().min(1) check fails; additionalInfo is optional
formSchema(values) == {f \in FieldNames : f # "additionalInfo" /\ Len(values[f]) < 1}

---------------------------------------------------------------------------
(* Effects that follow every render of PromptForm *)

\* the apiKey effect: a 500 ms timer once the key has 30 characters
ArmFetch(apiKey) == IF Len(apiKey) >= MinKeyLength THEN <<apiKey>> ELSE <<>>

\* the save effect: debouncedSave(form.getValues()) replaces any pending timer
ArmSave(formData) == <<formData>>

---------------------------------------------------------------------------
(* Initial states *)

InitWith(formItems, apiKeys, results, histories) ==
    /\ store \in [form : formItems, apiKey : apiKeys, result : results]
    /\ form = defaultValues
    /\ errors = {}
    /\ isSubmitted = FALSE
    /\ mounted = FALSE
    /\ crashed = FALSE
    /\ models = DefaultModels
    /\ isLoadingModels = FALSE
    /\ fetchTimer = <<>>
    /\ fetchInFlight = 0
    /\ saveTimer = <<>>
    /\ toast = ""
    /\ cleanSinceReset = FALSE
    /\ isLoading = FALSE
    /\ result = Null
    /\ currentFormData = <<>>
    /\ genInFlight = <<>>
    /\ logged = FALSE
    /\ history \in histories
    /\ currentPage = 0

Init == InitWith({AbsentItem, MalformedItem, JsonItem(dataToSave(FullValues))},
                 {Null, LongKey}, {Null}, {<<>>})

---------------------------------------------------------------------------
(* PromptForm *)

\* The effects of the first commit and of the render that setMounted(true) causes.
\* Every component starts from its constructed state, so the outcome depends on
\* the store alone.
MountEffects ==
    /\ errors' = {}
    /\ isSubmitted' = FALSE
    /\ models' = DefaultModels
    /\ isLoadingModels' = FALSE
    /\ fetchInFlight' = 0
    /\ toast' = ""
    /\ cleanSinceReset' = FALSE
    /\ isLoading' = FALSE
    /\ currentFormData' = <<>>
    /\ genInFlight' = <<>>
    /\ logged' = FALSE
    /\ currentPage' = 0
    /\ UNCHANGED history
    /\ IF LoadThrows(store)
       THEN /\ crashed' = TRUE
            /\ mounted' = FALSE
            /\ form' = defaultValues
            /\ saveTimer' = <<>>
            /\ fetchTimer' = <<>>
            /\ result' = Null
            \* the container's effects of the same commit may or may not have run
            /\ store' \in {store, [store EXCEPT !.result = Null]}
       ELSE /\ crashed' = FALSE
            /\ mounted' = TRUE
            /\ form' = LoadedForm(store)
            /\ saveTimer' = ArmSave(form')
            /\ fetchTimer' = ArmFetch(form'.apiKey)
            /\ result' = SyncResult(store.result)
            /\ store' = [store EXCEPT !.result = SyncResult(result')]

\* first mount
Mount ==
    /\ ~mounted /\ ~crashed
    /\ MountEffects

\* the page is reloaded: all component state, timers and requests are dropped,
\* localStorage stays, and the components mount again
Reload ==
    /\ mounted \/ crashed
    /\ MountEffects

\* a field's onChange
ChangeField(f, v) ==
    /\ mounted /\ ~crashed
    /\ v # form[f]
    /\ form' = setValue(form, f, v)
    /\ saveTimer' = ArmSave(form')
    /\ fetchTimer' = IF f = "apiKey" THEN ArmFetch(v) ELSE fetchTimer
    /\ errors' = IF isSubmitted
                 THEN IF f \in formSchema(form') THEN errors \cup {f} ELSE errors \ {f}
                 ELSE errors
    /\ cleanSinceReset' = FALSE
    /\ UNCHANGED <<store, isSubmitted, mounted, crashed, models, isLoadingModels,
                   fetchInFlight, toast, containerVars, historyVars>>

EditText == \E f \in EditableTextFields, v \in TextInputs : ChangeField(f, v)

EditApiKey == \E v \in KeyInputs : ChangeField("apiKey", v)

\* the Select offers the ids of `models`, and only a disabled item while they load
SelectModel ==
    /\ ~isLoadingModels
    /\ \E i \in 1..Len(models) : ChangeField("model", models[i])

\* the 300 ms timer of debouncedSave fires
SaveTimerFire ==
    /\ saveTimer # <<>>
    /\ LET formData == saveTimer[1]
       IN store' = [store EXCEPT
                      !.form = JsonItem(dataToSave(formData)),
                      !.apiKey = IF formData.apiKey # "" THEN formData.apiKey ELSE @]
    /\ saveTimer' = <<>>
    /\ UNCHANGED <<form, errors, isSubmitted, mounted, crashed, models, isLoadingModels,
                   fetchTimer, fetchInFlight, toast, cleanSinceReset,
                   containerVars, historyVars>>

\* the Reset Form button
resetForm ==
    /\ mounted /\ ~crashed
    /\ form' = [defaultValues EXCEPT !.apiKey = form.apiKey]
    /\ errors' = {}
    /\ isSubmitted' = FALSE
    /\ store' = [store EXCEPT !.form = AbsentItem]
    /\ toast' = "Form Reset"
    /\ saveTimer' = ArmSave(form')
    /\ cleanSinceReset' = TRUE
    /\ UNCHANGED <<mounted, crashed, models, isLoadingModels, fetchTimer, fetchInFlight,
                   containerVars, historyVars>>

---------------------------------------------------------------------------
(* Model list *)

\* variant: the filter tests the first default only
NotFirstDefault(id) == id # DefaultModels[1]
filteredModelsFirstOnly(list) == SelectSeq(list, NotFirstDefault)

\* allModels.filter(model => !defaultModels.includes(model.id))
RECURSIVE filteredModels(_)
filteredModels(list) ==
    IF list = <<>> THEN <<>>
    ELSE IF \E i \in 1..Len(DefaultModels) : DefaultModels[i] = Head(list)
         THEN filteredModels(Tail(list))
         ELSE <<Head(list)>> \o filteredModels(Tail(list))

\* the 500 ms timer fires: fetchModels(apiKey) up to its await
FetchTimerFire ==
    /\ fetchTimer # <<>>
    /\ fetchTimer[1] # "" /\ mounted
    /\ fetchInFlight < MaxInFlight
    /\ isLoadingModels' = TRUE
    /\ fetchInFlight' = fetchInFlight + 1
    /\ fetchTimer' = <<>>
    /\ saveTimer' = IF isLoadingModels THEN saveTimer ELSE ArmSave(form)
    /\ UNCHANGED <<store, form, errors, isSubmitted, mounted, crashed, models, toast,
                   cleanSinceReset, containerVars, historyVars>>

\* openai.models.list() resolves
FetchSuccess ==
    /\ fetchInFlight > 0
    /\ \E modelList \in SeqsUpTo(ApiIds, MaxApiModels) :
         models' = DefaultModels \o filteredModels(modelList)
    /\ isLoadingModels' = FALSE
    /\ fetchInFlight' = fetchInFlight - 1
    /\ saveTimer' = ArmSave(form)
    /\ UNCHANGED <<store, form, errors, isSubmitted, mounted, crashed, fetchTimer, toast,
                   cleanSinceReset, containerVars, historyVars>>

\* the import or the request rejects
FetchFail ==
    /\ fetchInFlight > 0
    /\ toast' = "Failed to load models"
    /\ isLoadingModels' = FALSE
    /\ fetchInFlight' = fetchInFlight - 1
    /\ saveTimer' = ArmSave(form)
    /\ UNCHANGED <<store, form, errors, isSubmitted, mounted, crashed, models, fetchTimer,
                   cleanSinceReset, containerVars, historyVars>>

---------------------------------------------------------------------------
(* PromptContainer and the submit button of PromptForm *)

\* variant: the submit button is never disabled
SubmitNeverDisabled == FALSE

\* disabled={isLoading} on the submit button
SubmitDisabled == isLoading

\* form.handleSubmit(handleSubmit) with valid values: PromptContainer.handleSubmit
\* up to its await
Submit ==
    /\ mounted /\ ~crashed
    /\ ~SubmitDisabled
    /\ formSchema(form) = {}
    /\ errors' = {}
    /\ isSubmitted' = TRUE
    /\ isLoading' = TRUE
    /\ currentFormData' = <<form>>
    /\ genInFlight' = Append(genInFlight, form)
    /\ saveTimer' = ArmSave(form)
    /\ UNCHANGED <<store, form, mounted, crashed, models, isLoadingModels, fetchTimer,
                   fetchInFlight, toast, cleanSinceReset, result, logged, historyVars>>

\* form.handleSubmit(handleSubmit) with invalid values: the resolver's errors are
\* shown and onSubmit is not called
SubmitRejected ==
    /\ mounted /\ ~crashed
    /\ ~SubmitDisabled
    /\ formSchema(form) # {}
    /\ errors' = formSchema(form)
    /\ isSubmitted' = TRUE
    /\ saveTimer' = ArmSave(form)
    /\ UNCHANGED <<store, form, mounted, crashed, models, isLoadingModels, fetchTimer,
                   fetchInFlight, toast, cleanSinceReset, containerVars, historyVars>>

RemoveAt(s, i) == [k \in 1..(Len(s) - 1) |-> IF k < i THEN s[k] ELSE s[k + 1]]

\* the owner of the history list records a successful generation
HistoryAdd(h, content, formData) ==
    Append(h, [id |-> Len(h), timestamp |-> Len(h), content |-> content,
               formData |-> formData])

\* generateSalesPrompt resolves: setResult(prompt), then finally
GenSuccess ==
    /\ genInFlight # <<>>
    /\ Len(history) < MaxGenerated
    /\ \E i \in 1..Len(genInFlight), prompt \in Prompts :
         /\ result' = prompt
         /\ store' = [store EXCEPT !.result = SyncResult(prompt)]
         /\ genInFlight' = RemoveAt(genInFlight, i)
         /\ history' = HistoryAdd(history, prompt, currentFormData[1])
    /\ isLoading' = FALSE
    /\ saveTimer' = ArmSave(form)
    /\ UNCHANGED <<form, errors, isSubmitted, mounted, crashed, models, isLoadingModels,
                   fetchTimer, fetchInFlight, toast, cleanSinceReset, currentFormData,
                   logged, currentPage>>

\* variant: the catch block also clears the result
GenFailClearsResult ==
    /\ genInFlight # <<>>
    /\ \E i \in 1..Len(genInFlight) : genInFlight' = RemoveAt(genInFlight, i)
    /\ logged' = TRUE
    /\ isLoading' = FALSE
    /\ result' = Null
    /\ store' = [store EXCEPT !.result = SyncResult(Null)]
    /\ saveTimer' = ArmSave(form)
    /\ UNCHANGED <<form, errors, isSubmitted, mounted, crashed, models,
                   isLoadingModels, fetchTimer, fetchInFlight, toast, cleanSinceReset,
                   currentFormData, historyVars>>

\* generateSalesPrompt rejects: catch logs the error, then finally
GenFail ==
    /\ genInFlight # <<>>
    /\ \E i \in 1..Len(genInFlight) : genInFlight' = RemoveAt(genInFlight, i)
    /\ logged' = TRUE
    /\ isLoading' = FALSE
    /\ saveTimer' = ArmSave(form)
    /\ UNCHANGED <<store, form, errors, isSubmitted, mounted, crashed, models,
                   isLoadingModels, fetchTimer, fetchInFlight, toast, cleanSinceReset,
                   result, currentFormData, historyVars>>

\* handleClearPrompt
handleClearPrompt ==
    /\ mounted /\ ~crashed
    /\ result # Null
    /\ result' = Null
    /\ store' = [store EXCEPT !.result = SyncResult(Null)]
    /\ saveTimer' = ArmSave(form)
    /\ UNCHANGED <<form, errors, isSubmitted, mounted, crashed, models, isLoadingModels,
                   fetchTimer, fetchInFlight, toast, cleanSinceReset, isLoading,
                   currentFormData, genInFlight, logged, historyVars>>

---------------------------------------------------------------------------
(* PromptHistory *)

\* Math.ceil(a / b) for a >= 0, b > 0
Ceil(a, b) == IF a % b = 0 THEN a \div b ELSE (a \div b) + 1

\* Array.prototype.slice(start, end) for start, end >= 0 (indices from 0)
Slice(s, start, end) ==
    LET lo == Min(start, Len(s))
        hi == Min(end, Len(s))
    IN [k \in 1..Max(hi - lo, 0) |-> s[lo + k]]

totalPages == Ceil(Len(history), ITEMS_PER_PAGE)
startIndex == currentPage * ITEMS_PER_PAGE
\* variant: the end of the slice is taken as inclusive
endIndexInclusive == startIndex + ITEMS_PER_PAGE + 1
endIndex == startIndex + ITEMS_PER_PAGE
currentItems == Slice(history, startIndex, endIndex)

\* the Previous button
PreviousPage ==
    /\ totalPages > 1
    /\ ~(currentPage = 0)
    /\ currentPage' = Max(0, currentPage - 1)
    /\ UNCHANGED <<store, formVars, containerVars, history>>

\* the Next button
NextPage ==
    /\ totalPages > 1
    /\ ~(currentPage = totalPages - 1)
    /\ currentPage' = Min(totalPages - 1, currentPage + 1)
    /\ UNCHANGED <<store, formVars, containerVars, history>>

\* handleRestoreFormData
handleRestoreFormData(formData) == currentFormData' = <<formData>>

\* handleRestorePrompt, and the effect that mirrors the result
handleRestorePrompt(prompt) ==
    /\ result' = prompt
    /\ store' = [store EXCEPT !.result = SyncResult(prompt)]

\* the owner of the history list hands a restore to the container's two handlers
\* and keeps its list
DelegateRestore(formData, prompt) ==
    /\ handleRestoreFormData(formData)
    /\ handleRestorePrompt(prompt)
    /\ UNCHANGED history

\* the RestoreButton of the i-th displayed item.  PromptForm takes no
\* restoredFormData prop, so its values stay as they are.
RestoreItem(i) ==
    /\ mounted /\ ~crashed
    /\ i \in 1..Len(currentItems)
    /\ DelegateRestore(currentItems[i].formData, currentItems[i].content)
    /\ saveTimer' = ArmSave(form)
    /\ UNCHANGED <<form, errors, isSubmitted, mounted, crashed, models, isLoadingModels,
                   fetchTimer, fetchInFlight, toast, cleanSinceReset, isLoading,
                   genInFlight, logged, currentPage>>

Restore == \E i \in 1..ITEMS_PER_PAGE : RestoreItem(i)

---------------------------------------------------------------------------
(* Specifications *)

\* PromptForm: persistence, reset, model list
Next ==
    \/ Mount
    \/ Reload
    \/ EditText
    \/ EditApiKey
    \/ SelectModel
    \/ SaveTimerFire
    \/ resetForm
    \/ FetchTimerFire
    \/ FetchSuccess
    \/ FetchFail

Spec == Init /\ [][Next]_vars

\* the model list alone: the credential is the only field edited by hand
InitModels == InitWith({AbsentItem}, {Null, LongKey}, {Null}, {<<>>})

NextModels ==
    \/ Mount
    \/ Reload
    \/ EditApiKey
    \/ SelectModel
    \/ SaveTimerFire
    \/ FetchTimerFire
    \/ FetchSuccess
    \/ FetchFail

SpecModels == InitModels /\ [][NextModels]_vars

\* the forms a previous session may have saved: complete, or one required
\* business field left empty
SavedForms ==
    {FullValues} \cup {[FullValues EXCEPT ![f] = ""] : f \in RequiredBusinessFields}

InitWorkflow ==
    InitWith({AbsentItem} \cup {JsonItem(dataToSave(v)) : v \in SavedForms},
             {LongKey}, {"p1"}, {<<>>})

\* the submission workflow
NextWorkflow ==
    \/ Mount
    \/ Reload
    \/ EditText
    \/ EditApiKey
    \/ resetForm
    \/ Submit
    \/ SubmitRejected
    \/ GenSuccess
    \/ GenFail
    \/ handleClearPrompt
    \/ Restore

SpecWorkflow == InitWorkflow /\ [][NextWorkflow]_vars

\* histories of every length up to the bound; contents alternate
CanonHistory(n) ==
    [k \in 1..n |-> [id |-> k - 1, timestamp |-> k - 1,
                     content |-> IF k % 2 = 1 THEN "p1" ELSE "p2",
                     formData |-> FullValues]]

InitHistory ==
    InitWith({AbsentItem}, {Null}, {Null}, {CanonHistory(n) : n \in 0..MaxHistory})

\* browsing the history
NextHistory ==
    \/ Mount
    \/ PreviousPage
    \/ NextPage
    \/ Restore
    \/ handleClearPrompt

SpecHistory == InitHistory /\ [][NextHistory]_vars

\* the owner of the history list removes the item with the given id; an id that
\* is not in the list removes nothing
RECURSIVE HistoryDelete(_, _)
HistoryDelete(h, id) ==
    IF h = <<>> THEN <<>>
    ELSE IF Head(h).id = id THEN HistoryDelete(Tail(h), id)
         ELSE <<Head(h)>> \o HistoryDelete(Tail(h), id)

\* the DeleteButton of the i-th displayed item: onDelete(item.id).  PromptHistory
\* keeps its currentPage state when the history prop changes.
DeleteItem(i) ==
    /\ ~crashed
    /\ i \in 1..Len(currentItems)
    /\ history' = HistoryDelete(history, currentItems[i].id)
    /\ UNCHANGED <<store, formVars, containerVars, currentPage>>

\* the delete button the user clicks: that of the last item displayed
DeletePositions == {Len(currentItems)}

Delete == \E i \in DeletePositions : DeleteItem(i)

\* browsing the history and deleting from it
NextHistoryDelete ==
    \/ Mount
    \/ PreviousPage
    \/ NextPage
    \/ Restore
    \/ handleClearPrompt
    \/ Delete

SpecHistoryDelete == InitHistory /\ [][NextHistoryDelete]_vars

---------------------------------------------------------------------------
(* Properties *)

\* C1: once the save timer has fired with no later edit, a reload of the page
\* restores every non-credential field and the credential to the values they had
\* just before the reload.
C1_RoundTrip ==
    [][(Reload /\ mounted /\ saveTimer = <<>>) => (mounted' /\ form' = form)]_vars

\* C2: Reset Form clears every field but the credential, leaves the credential in
\* the form and under its key, and removes the form-data entry; with no later edit
\* the entry stays absent, also after the pending timers have fired.
C2_ResetRemovesEntry ==
    [][ /\ resetForm =>
             /\ form' = [defaultValues EXCEPT !["apiKey"] = form["apiKey"]]
             /\ store'.apiKey = store.apiKey
             /\ store'.form = AbsentItem
        /\ (cleanSinceReset /\ cleanSinceReset') => store'.form = AbsentItem ]_vars

\* C3: with an unparseable value under the form-data key the load does not crash:
\* mounted becomes true, the fields keep their defaults and a saved credential is
\* restored.
C3_MalformedLoadIsSkipped ==
    [][((Mount \/ Reload) /\ store.form.kind = "malformed") =>
          /\ ~crashed'
          /\ mounted'
          /\ form' = IF Truthy(store.apiKey)
                     THEN [defaultValues EXCEPT !["apiKey"] = store.apiKey]
                     ELSE defaultValues ]_vars

\* C4: after a failed model-list fetch the model list is exactly the two defaults,
\* whatever earlier fetches did.
C4_FailureLeavesDefaults ==
    [][FetchFail => models' = <<"gpt-4o-mini", "gpt-4o">>]_vars

\* C5: the model list always starts with gpt-4o-mini, gpt-4o, and neither default
\* occurs again after them.
C5_DefaultsFirstOnce ==
    /\ Len(models) >= 2
    /\ models[1] = "gpt-4o-mini"
    /\ models[2] = "gpt-4o"
    /\ \A i \in 3..Len(models) : models[i] \notin {"gpt-4o-mini", "gpt-4o"}

\* C5 witness: a response appended a model while another fetch is still in flight
C5_Witness == Len(models) > 2 /\ fetchInFlight > 0

\* C6: restoring a history item sets the form's values to the item's formData and
\* the result to the item's content, and leaves the history as it was.
C6_RestoreExact ==
    [][\A i \in 1..ITEMS_PER_PAGE :
          RestoreItem(i) =>
             /\ form' = currentItems[i].formData
             /\ result' = currentItems[i].content
             /\ history' = history ]_vars

RequiredEmpty(v) ==
    \/ v["apiKey"] = ""
    \/ v["model"] = ""
    \/ \E f \in RequiredBusinessFields : v[f] = ""

\* C7: with a required field empty a submit is rejected and no generator call
\* starts; every call that starts carries values whose required fields are all
\* non-empty.
C7_NoCallWhenRequiredMissing ==
    [][ /\ Len(genInFlight') > Len(genInFlight) =>
             /\ ~RequiredEmpty(form)
             /\ ~RequiredEmpty(genInFlight'[Len(genInFlight')])
        /\ ((Submit \/ SubmitRejected) /\ RequiredEmpty(form)) =>
             /\ errors' # {}
             /\ UNCHANGED containerVars ]_vars

\* C7 witness: a submit with only objections empty was rejected, nothing was called
C7_Witness ==
    /\ isSubmitted
    /\ errors = {"objections"}
    /\ form["objections"] = ""
    /\ currentFormData = <<>>
    /\ genInFlight = <<>>
    /\ ~isLoading

\* C8: an accepted submit starts exactly one generator call, and at most one call
\* is in flight in any state.
C8_OneCallInFlight ==
    /\ [](Len(genInFlight) <= 1 /\ (genInFlight # <<>> => isLoading))
    /\ [][Submit => (genInFlight = <<>> /\ genInFlight' = <<form>>)]_vars

\* C8 witness: a call is in flight and the button is disabled
C8_Witness == isLoading /\ Len(genInFlight) = 1 /\ ~RequiredEmpty(genInFlight[1])

\* C9: page p shows exactly items 10p .. min(10p+10, n)-1 in order; Next moves one
\* page forward and never past page ceil(n/10)-1, Previous one page back and never
\* below 0.
C9_Pagination ==
    /\ [] LET n == Len(history)
              last == ((n + 9) \div 10) - 1
          IN /\ n > 0 => currentPage \in 0..last
             /\ Len(currentItems) = Min(10 * currentPage + 10, n) - 10 * currentPage
             /\ \A k \in 1..Len(currentItems) :
                    currentItems[k] = history[10 * currentPage + k]
             /\ (n = 25 /\ currentPage = 0) =>
                    [k \in 1..Len(currentItems) |-> currentItems[k].id]
                        = <<0, 1, 2, 3, 4, 5, 6, 7, 8, 9>>
             /\ (n = 25 /\ currentPage = 2) =>
                    [k \in 1..Len(currentItems) |-> currentItems[k].id]
                        = <<20, 21, 22, 23, 24>>
             /\ currentPage = last => ~ENABLED NextPage
             /\ currentPage = 0 => ~ENABLED PreviousPage
    /\ [][ /\ NextPage =>
                /\ currentPage' = currentPage + 1
                /\ currentPage' <= ((Len(history) + 9) \div 10) - 1
           /\ PreviousPage =>
                /\ currentPage' = currentPage - 1
                /\ currentPage' >= 0 ]_vars

\* C9 witness: the last page of 25 items shows five of them
C9_Witness ==
    /\ Len(history) = 25
    /\ currentPage = 2
    /\ Len(currentItems) = 5

\* C10: a failed generation changes neither the shown result nor the persisted
\* one (nor does the submit that started it), is logged, and leaves isLoading
\* false with no call in flight, so that the submit button is enabled again.
C10_FailureKeepsResult ==
    [][ /\ GenFail =>
             /\ result' = result
             /\ store'.result = store.result
             /\ logged'
             /\ ~isLoading'
             /\ genInFlight' = <<>>
        /\ Submit =>
             /\ result' = result
             /\ store'.result = store.result ]_vars

\* C10 witness: no generation ever succeeded, one failed, and the result loaded
\* from the store is still shown and still stored
C10_Witness ==
    /\ logged
    /\ history = <<>>
    /\ result = "p1"
    /\ store.result = "p1"
    /\ ~isLoading
    /\ genInFlight = <<>>

\* C11: a restore, also while a generation call is in flight, leaves isLoading
\* false with the restored content as the shown result; the response of a call
\* submitted before the restore (the container's currentFormData is then no longer
\* the values of that call) does not replace the restored result.
C11_RestoreReturnsToIdle ==
    [][ /\ \A i \in 1..ITEMS_PER_PAGE :
              RestoreItem(i) =>
                 /\ ~isLoading'
                 /\ result' = currentItems[i].content
        /\ (GenSuccess /\ currentFormData # <<genInFlight[1]>>) =>
              result' = result ]_vars

\* C12: whenever the history is non-empty the current page index is within
\* 0..ceil(n/10)-1, so the displayed page holds at least one item.
C12_PageWithinRange ==
    Len(history) > 0 =>
        /\ currentPage \in 0..(((Len(history) + 9) \div 10) - 1)
        /\ currentItems # <<>>

====
